---- MODULE Spec2Model ----
(***************************************************************************)
(* Lift simulation controller (deepakpalnitie/RDS-Lift-Simulation).        *)
(*                                                                         *)
(* The controller of src/js/main.js (class LiftSimulation, lines 1-248)    *)
(* and of src/js/main_functional.js (the same logic over an explicit       *)
(* state object) is modelled as a state machine.  A handler of the code    *)
(* runs to completion between two awaits (JavaScript is single threaded),  *)
(* so one action is one button click or one timer completion together with *)
(* everything the handler calls synchronously.  Handlers are written as    *)
(* operators from a state record to a state record, in the order of the    *)
(* statements of the code; the actions apply them to the variables.        *)
(*                                                                         *)
(* An invocation of the async moveLift is a "trip": a record that holds    *)
(* the closure's liftIndex and targetFloor and the await it is suspended   *)
(* at.  The trips in flight are a bag, so that two invocations for one     *)
(* lift are representable.                                                 *)
(*                                                                         *)
(* Timers are untimed: any pending timer may complete next.  The durations *)
(* of the code only restrict this order further.  The variable clock keeps *)
(* the delay of the timer each trip waits on and the sum of the delays it  *)
(* has waited on before.                                                   *)
(*                                                                         *)
(* Specifications:                                                         *)
(*   Spec         the controller of main.js / main_functional.js           *)
(*   FairSpec     the same controller with every timer completing          *)
(*   SpecPart002  the earlier controller of src/unnamed/part_002           *)
(*   SelectSpec   findNearestIdleLift applied to any placement of lifts    *)
(*   PendingSpec  the controller, checkPendingCalls also run on its own    *)
(*   SpecPart001  the functional controller of src/unnamed/part_001        *)
(*   StartSpec    the handlers that start a simulation                     *)
(*   RestartSpec  the controller, re-configured while trips are in flight  *)
(***************************************************************************)
EXTENDS Integers, Sequences, FiniteSets, Bags, TLC

\* Bounds of the model.
MaxFloors == 3
MaxLifts == 2
MaxCells == 6
MaxQueue == 2
MaxTrips == 3
MaxSelectLifts == 3
MaxRestartCells == 2

\* The largest numbers of floors and of lifts the start-simulation handler of
\* main.js accepts.
FloorsLimit == 9
LiftsLimit == 5

\* Milliseconds of travel per floor (moveTime = floorsToMove * 2000) and of each
\* of the two waits of openCloseDoors.
TimePerFloor == 2000
DoorTime == 2500

\* Milliseconds of the first wait of openCloseDoors in src/unnamed/part_001.
DoorOpenTime_part001 == 2000

VARIABLES
    floors,        \* this.floors
    lifts,         \* this.lifts
    liftStates,    \* this.liftStates: [0..lifts-1 -> [currentFloor, status]]
    floorCalls,    \* this.floorCalls: [0..floors -> [up, down]]
    pendingCalls,  \* this.pendingCalls: sequence of [floor, direction]
    trips,         \* bag of suspended moveLift invocations
    clock,         \* per lift: the timer its trip waits on (observation only)
    lastEvent,     \* what the last handler did (observation only)
    dom,           \* the document: the buttons pressed, the lift elements
    previous       \* the simulation object replaced last, while it has timers

vars ==
    <<floors, lifts, liftStates, floorCalls, pendingCalls, trips, clock, lastEvent,
      dom, previous>>

Directions == {"up", "down"}

\* Math.abs
Abs(x) == IF x < 0 THEN -x ELSE x

\* A distance larger than any distance between two floors (minDistance = Infinity).
Infinity == FloorsLimit + MaxFloors

\* The record a handler works on: the fields of the simulation object, the
\* trips in flight, the document and the log of what the handler has done so
\* far.  `detached` holds the lifts whose trip in flight keeps a lift element
\* of a document that has been replaced since (none for the simulation the
\* document was rendered for).
State ==
    [floors |-> floors, lifts |-> lifts, liftStates |-> liftStates,
     floorCalls |-> floorCalls, pendingCalls |-> pendingCalls,
     trips |-> trips, clock |-> clock, ev |-> lastEvent,
     dom |-> dom, detached |-> {}]

\* The log at the start of a handler.
NoEvent ==
    [op |-> "init", floor |-> 0, direction |-> "none", lift |-> -1,
     accepted |-> FALSE, dispatched |-> -1, onIdle |-> TRUE,
     enqueued |-> FALSE, dequeued |-> FALSE, requeued |-> FALSE,
     from |-> 0, elapsed |-> 0, cleared |-> {},
     input |-> <<>>, error |-> "", thrown |-> FALSE]

\* The clock of a lift that is not on a trip.  For a lift on a trip, `from` is
\* the floor it was sent from, `delay` the milliseconds of the setTimeout the
\* trip is waiting on and `busy` the milliseconds of the timers it has waited
\* on before.
NoTimer == [from |-> 0, delay |-> -1, busy |-> 0]

\* setTimeout(resolve, ms) in the trip of lift i, and its completion.
SetTimeout(s, i, ms) == [s EXCEPT !.clock[i].delay = ms]
TimerFired(s, i) == [s EXCEPT !.clock[i].busy = @ + s.clock[i].delay]

\* Number of trips in flight for lift i.
TripsOf(tr, i) ==
    BagCardinality([t \in {u \in BagToSet(tr) : u.liftIndex = i} |-> tr[t]])

(***************************************************************************)
(* The document.  Of #simulation-container the model keeps the numbers of  *)
(* floors and lifts rendered, the floor buttons that carry the class       *)
(* 'pressed', and for every lift element the floor its style.bottom stands *)
(* for and whether its doors carry the class 'open'.  (The class 'in-use'  *)
(* of the lift number is set and removed with the status of the lift and   *)
(* is not kept.)                                                           *)
(***************************************************************************)
\* The container before anything is rendered.
EmptyDocument ==
    [floors |-> 0, lifts |-> 0, pressed |-> {}, bottom |-> <<>>, open |-> <<>>]

\* The container after renderSimulation for fl floors and li lifts: innerHTML
\* is emptied; every lift element is new, at the bottom, its doors closed.
Document(fl, li) ==
    [floors |-> fl, lifts |-> li, pressed |-> {},
     bottom |-> [i \in 0..(li - 1) |-> 1],
     open |-> [i \in 0..(li - 1) |-> FALSE]]

\* init(): renderSimulation and attachEventListeners.
renderSimulation(s) == [s EXCEPT !.dom = Document(s.floors, s.lifts)]

\* document.querySelector('.floor-buttons[data-floor=f] .d-button') finds a
\* button.
ButtonIn(d, floor, direction) ==
    /\ floor \in 1..d.floors
    /\ direction = "up" => floor < d.floors
    /\ direction = "down" => floor > 1

\* Variant of the highlighting that leaves the button as it is.
PressNothing(s, floor, direction) == s

\* button.classList.add('pressed'), if the button is found.
Press(s, floor, direction) ==
    IF ButtonIn(s.dom, floor, direction)
    THEN [s EXCEPT !.dom.pressed = @ \cup {<<floor, direction>>}]
    ELSE s

\* classList.remove('pressed') on every button of the floor in the document.
Release(s, floor) == [s EXCEPT !.dom.pressed = {b \in @ : b[1] # floor}]

\* The lift element of liftIndex found in the document is moved to the floor.
Animate(s, liftIndex, targetFloor) ==
    [s EXCEPT !.detached = @ \ {liftIndex},
              !.dom.bottom[liftIndex] = targetFloor]

\* The doors of the lift element the trip t holds are opened or closed; an
\* element of a replaced document is not in the document any more.
Doors(s, t, open) ==
    IF t.liftIndex \in s.detached
    THEN s
    ELSE [s EXCEPT !.dom.open[t.liftIndex] = open]

\* No simulation object other than the current one has timers pending.
NoSimulation ==
    [floors |-> 0, lifts |-> 0, liftStates |-> <<>>, floorCalls |-> <<>>,
     pendingCalls |-> <<>>, trips |-> EmptyBag, detached |-> {}]

(***************************************************************************)
(* constructor(floors, lifts) and init()                                   *)
(***************************************************************************)
Init ==
    /\ floors \in 2..MaxFloors
    /\ lifts \in 1..MaxLifts
    /\ floors * lifts <= MaxCells
    /\ liftStates = [i \in 0..(lifts - 1) |-> [currentFloor |-> 1, status |-> "idle"]]
    /\ floorCalls = [f \in 0..floors |-> [up |-> FALSE, down |-> FALSE]]
    /\ pendingCalls = <<>>
    /\ trips = EmptyBag
    /\ clock = [i \in 0..(lifts - 1) |-> NoTimer]
    /\ lastEvent = NoEvent
    /\ dom = Document(floors, lifts)
    /\ previous = NoSimulation

(***************************************************************************)
(* findNearestIdleLift(floor): the for loop, from index i on.              *)
(***************************************************************************)
RECURSIVE ScanLifts(_, _, _, _, _)
ScanLifts(s, floor, i, nearestLift, minDistance) ==
    IF i >= s.lifts THEN nearestLift
    ELSE IF /\ s.liftStates[i].status = "idle"
            /\ Abs(s.liftStates[i].currentFloor - floor) < minDistance
         THEN ScanLifts(s, floor, i + 1, i, Abs(s.liftStates[i].currentFloor - floor))
         ELSE ScanLifts(s, floor, i + 1, nearestLift, minDistance)

\* Variant of the loop without the test of the status.
RECURSIVE ScanLiftsAnyStatus(_, _, _, _, _)
ScanLiftsAnyStatus(s, floor, i, nearestLift, minDistance) ==
    IF i >= s.lifts THEN nearestLift
    ELSE IF Abs(s.liftStates[i].currentFloor - floor) < minDistance
         THEN ScanLiftsAnyStatus(s, floor, i + 1, i,
                                 Abs(s.liftStates[i].currentFloor - floor))
         ELSE ScanLiftsAnyStatus(s, floor, i + 1, nearestLift, minDistance)

findNearestLiftAnyStatus(s, floor) == ScanLiftsAnyStatus(s, floor, 0, -1, Infinity)

\* Variant of the loop that compares with <= instead of <.
RECURSIVE ScanLiftsLastWins(_, _, _, _, _)
ScanLiftsLastWins(s, floor, i, nearestLift, minDistance) ==
    IF i >= s.lifts THEN nearestLift
    ELSE IF /\ s.liftStates[i].status = "idle"
            /\ Abs(s.liftStates[i].currentFloor - floor) <= minDistance
         THEN ScanLiftsLastWins(s, floor, i + 1, i,
                                Abs(s.liftStates[i].currentFloor - floor))
         ELSE ScanLiftsLastWins(s, floor, i + 1, nearestLift, minDistance)

findNearestIdleLiftLastWins(s, floor) == ScanLiftsLastWins(s, floor, 0, -1, Infinity)

\* Variant of the loop that returns the first idle lift.
RECURSIVE ScanLiftsFirstIdle(_, _, _)
ScanLiftsFirstIdle(s, floor, i) ==
    IF i >= s.lifts THEN -1
    ELSE IF s.liftStates[i].status = "idle" THEN i
         ELSE ScanLiftsFirstIdle(s, floor, i + 1)

findFirstIdleLift(s, floor) == ScanLiftsFirstIdle(s, floor, 0)

findNearestIdleLift(s, floor) == ScanLifts(s, floor, 0, -1, Infinity)

(***************************************************************************)
(* moveLift(liftIndex, targetFloor) up to its first await: the lift is     *)
(* marked moving and the invocation is suspended on the travel timer.      *)
(***************************************************************************)
\* Variant of moveLift that puts the lift at the target floor at once.
moveLiftJumpsAtDispatch(s, liftIndex, targetFloor) ==
    [Animate(s, liftIndex, targetFloor) EXCEPT
        !.ev.dispatched = liftIndex,
        !.ev.onIdle = /\ s.liftStates[liftIndex].status = "idle"
                      /\ TripsOf(s.trips, liftIndex) = 0,
        !.liftStates[liftIndex] = [currentFloor |-> targetFloor, status |-> "moving"],
        !.clock[liftIndex] =
            [from |-> s.liftStates[liftIndex].currentFloor,
             delay |-> Abs(targetFloor - s.liftStates[liftIndex].currentFloor)
                           * TimePerFloor,
             busy |-> 0],
        !.trips = @ (+) SetToBag({[liftIndex |-> liftIndex,
                                   targetFloor |-> targetFloor,
                                   pc |-> "move"]})]

\* Variant of moveLift whose travel takes the time of one floor at least.
moveLiftOneFloorAtLeast(s, liftIndex, targetFloor) ==
    [Animate(s, liftIndex, targetFloor) EXCEPT
        !.ev.dispatched = liftIndex,
        !.ev.onIdle = /\ s.liftStates[liftIndex].status = "idle"
                      /\ TripsOf(s.trips, liftIndex) = 0,
        !.liftStates[liftIndex].status = "moving",
        !.clock[liftIndex] =
            [from |-> s.liftStates[liftIndex].currentFloor,
             delay |-> IF targetFloor = s.liftStates[liftIndex].currentFloor
                       THEN TimePerFloor
                       ELSE Abs(targetFloor - s.liftStates[liftIndex].currentFloor)
                                * TimePerFloor,
             busy |-> 0],
        !.trips = @ (+) SetToBag({[liftIndex |-> liftIndex,
                                   targetFloor |-> targetFloor,
                                   pc |-> "move"]})]

\* document.getElementById('lift-N') is null when the document has no such
\* lift: the status has been set by then, lift.querySelector throws and the
\* invocation ends there.
moveLift(s, liftIndex, targetFloor) ==
    IF liftIndex >= s.dom.lifts
    THEN [s EXCEPT
             !.ev.dispatched = liftIndex,
             !.ev.onIdle = /\ s.liftStates[liftIndex].status = "idle"
                           /\ TripsOf(s.trips, liftIndex) = 0,
             !.liftStates[liftIndex].status = "moving",
             !.ev.thrown = TRUE]
    ELSE [Animate(s, liftIndex, targetFloor) EXCEPT
             !.ev.dispatched = liftIndex,
             !.ev.onIdle = /\ s.liftStates[liftIndex].status = "idle"
                           /\ TripsOf(s.trips, liftIndex) = 0,
             !.liftStates[liftIndex].status = "moving",
             !.clock[liftIndex] =
                 [from |-> s.liftStates[liftIndex].currentFloor,
                  delay |-> Abs(targetFloor - s.liftStates[liftIndex].currentFloor)
                                * TimePerFloor,
                  busy |-> 0],
             !.trips = @ (+) SetToBag({[liftIndex |-> liftIndex,
                                        targetFloor |-> targetFloor,
                                        pc |-> "move"]})]

(***************************************************************************)
(* checkPendingCalls()                                                     *)
(***************************************************************************)
\* Variant of checkPendingCalls that leaves the pending calls where they are.
checkPendingCallsSkipped(s) == s

\* Variant of checkPendingCalls that takes the newest pending call (pop) instead
\* of the oldest (shift).
checkPendingCallsNewest(s) ==
    IF Len(s.pendingCalls) > 0
    THEN LET n == Len(s.pendingCalls)
             nextCall == s.pendingCalls[n]
             popped == [s EXCEPT !.pendingCalls = SubSeq(@, 1, n - 1),
                                 !.ev.dequeued = TRUE]
             nearestLift == findNearestIdleLift(popped, nextCall.floor)
         IN  IF nearestLift # -1
             THEN moveLift(popped, nearestLift, nextCall.floor)
             ELSE [popped EXCEPT !.pendingCalls = Append(@, nextCall),
                                 !.ev.requeued = TRUE]
    ELSE s

\* Variant of checkPendingCalls that, having sent a lift for the oldest pending
\* call, takes the next pending call off the queue as well.
checkPendingCallsTakesTwo(s) ==
    IF Len(s.pendingCalls) > 0
    THEN LET nextCall == Head(s.pendingCalls)
             shifted == [s EXCEPT !.pendingCalls = Tail(@), !.ev.dequeued = TRUE]
             nearestLift == findNearestIdleLift(shifted, nextCall.floor)
         IN  IF nearestLift # -1
             THEN [moveLift(shifted, nearestLift, nextCall.floor) EXCEPT
                      !.pendingCalls = IF @ # <<>> THEN Tail(@) ELSE @]
             ELSE [shifted EXCEPT !.pendingCalls = <<nextCall>> \o @,
                                  !.ev.requeued = TRUE]
    ELSE s

\* Variant of checkPendingCalls that does not put the call back when no lift is
\* idle.
checkPendingCallsDropsHead(s) ==
    IF Len(s.pendingCalls) > 0
    THEN LET nextCall == Head(s.pendingCalls)
             shifted == [s EXCEPT !.pendingCalls = Tail(@), !.ev.dequeued = TRUE]
             nearestLift == findNearestIdleLift(shifted, nextCall.floor)
         IN  IF nearestLift # -1
             THEN moveLift(shifted, nearestLift, nextCall.floor)
             ELSE shifted
    ELSE s

checkPendingCalls(s) ==
    IF Len(s.pendingCalls) > 0
    THEN LET nextCall == Head(s.pendingCalls)
             shifted == [s EXCEPT !.pendingCalls = Tail(@), !.ev.dequeued = TRUE]
             nearestLift == findNearestIdleLift(shifted, nextCall.floor)
         IN  IF nearestLift # -1
             THEN moveLift(shifted, nearestLift, nextCall.floor)
             ELSE [shifted EXCEPT !.pendingCalls = <<nextCall>> \o @,
                                  !.ev.requeued = TRUE]
    ELSE s

(***************************************************************************)
(* callLift(floor, direction)                                              *)
(***************************************************************************)
\* Variant of callLift without the test of the flag: every click is processed.
callLiftUnguarded(s, floor, direction) ==
    LET set == Press([s EXCEPT !.floorCalls[floor][direction] = TRUE,
                               !.ev.accepted = TRUE],
                     floor, direction)
        nearestLift == findNearestIdleLift(set, floor)
    IN  IF nearestLift # -1
        THEN moveLift(set, nearestLift, floor)
        ELSE [set EXCEPT !.pendingCalls = Append(@, [floor |-> floor,
                                                     direction |-> direction]),
                         !.ev.enqueued = TRUE]

\* Variant of callLift that puts a call that cannot be served at the front of
\* the pending calls (unshift) instead of the back (push).
callLiftUnshift(s, floor, direction) ==
    IF ~s.floorCalls[floor][direction]
    THEN LET set == Press([s EXCEPT !.floorCalls[floor][direction] = TRUE,
                                    !.ev.accepted = TRUE],
                          floor, direction)
             nearestLift == findNearestIdleLift(set, floor)
         IN  IF nearestLift # -1
             THEN moveLift(set, nearestLift, floor)
             ELSE [set EXCEPT !.pendingCalls = <<[floor |-> floor,
                                                  direction |-> direction]>> \o @,
                              !.ev.enqueued = TRUE]
    ELSE s

\* Variant of callLift that stores the call also when a lift was sent.
callLiftAlwaysStores(s, floor, direction) ==
    IF ~s.floorCalls[floor][direction]
    THEN LET set == Press([s EXCEPT !.floorCalls[floor][direction] = TRUE,
                                    !.ev.accepted = TRUE],
                          floor, direction)
             nearestLift == findNearestIdleLift(set, floor)
             sent == IF nearestLift # -1 THEN moveLift(set, nearestLift, floor) ELSE set
         IN  [sent EXCEPT !.pendingCalls = Append(@, [floor |-> floor,
                                                      direction |-> direction]),
                          !.ev.enqueued = TRUE]
    ELSE s

callLift(s, floor, direction) ==
    IF ~s.floorCalls[floor][direction]
    THEN LET set == Press([s EXCEPT !.floorCalls[floor][direction] = TRUE,
                                    !.ev.accepted = TRUE],
                          floor, direction)
             nearestLift == findNearestIdleLift(set, floor)
         IN  IF nearestLift # -1
             THEN moveLift(set, nearestLift, floor)
             ELSE [set EXCEPT !.pendingCalls = Append(@, [floor |-> floor,
                                                          direction |-> direction]),
                              !.ev.enqueued = TRUE]
    ELSE s

(***************************************************************************)
(* The continuations of moveLift after each of its three awaits.           *)
(***************************************************************************)
\* The trip t moved to the await `pc`.
Suspend(s, t, pc) ==
    [s EXCEPT !.trips = (@ (-) SetToBag({t})) (+) SetToBag({[t EXCEPT !.pc = pc]})]

\* openCloseDoors up to its first await: the doors open.
openCloseDoors(s, t) ==
    Suspend(SetTimeout(Doors(s, t, TRUE), t.liftIndex, DoorTime), t, "open")

\* Variant of the continuation after the travel timer that clears the calls
\* of the target floor on arrival.
moveLiftArrivedClearsFlags(s, t) ==
    openCloseDoors([TimerFired(s, t.liftIndex) EXCEPT
                       !.liftStates[t.liftIndex].currentFloor = t.targetFloor,
                       !.floorCalls[t.targetFloor] = [up |-> FALSE, down |-> FALSE]],
                   t)

\* After the travel timer: the lift is at the target floor and openCloseDoors
\* is called.
moveLiftArrived(s, t) ==
    openCloseDoors([TimerFired(s, t.liftIndex) EXCEPT
                       !.liftStates[t.liftIndex].currentFloor = t.targetFloor],
                   t)

\* Variant of openCloseDoors whose first wait never leads to the closing of
\* the doors.
openCloseDoorsNeverCloses(s, t) == s

\* openCloseDoors after its first timer: the doors start closing.
openCloseDoorsClosing(s, t) ==
    Suspend(SetTimeout(TimerFired(Doors(s, t, FALSE), t.liftIndex),
                       t.liftIndex, DoorTime),
            t, "close")

\* The last timer of the trip has completed: the time the trip has taken is
\* logged and the clock of the lift is cleared.
TripOver(s, t) ==
    [s EXCEPT !.ev.from = s.clock[t.liftIndex].from,
              !.ev.elapsed = s.clock[t.liftIndex].busy + s.clock[t.liftIndex].delay,
              !.clock[t.liftIndex] = NoTimer]

\* Variant of the end of moveLift that checks the pending calls before the
\* lift is marked idle.
moveLiftFinishedChecksFirst(s, t) ==
    LET checked == checkPendingCalls([TripOver(s, t) EXCEPT
                                         !.trips = @ (-) SetToBag({t})])
    IN  [Release(checked, t.targetFloor) EXCEPT
            !.ev.cleared = {d \in Directions : s.floorCalls[t.targetFloor][d]},
            !.liftStates[t.liftIndex].status = "idle",
            !.floorCalls[t.targetFloor] = [up |-> FALSE, down |-> FALSE]]

\* Variant of the end of moveLift that leaves the calls of the target floor as
\* they are.
moveLiftFinishedKeepsFlags(s, t) ==
    checkPendingCalls(
        [TripOver(s, t) EXCEPT
            !.trips = @ (-) SetToBag({t}),
            !.detached = @ \ {t.liftIndex},
            !.liftStates[t.liftIndex].status = "idle"])

\* Variant of the end of moveLift that clears the calls of every floor.
moveLiftFinishedClearsAllFloors(s, t) ==
    checkPendingCalls(
        [Release(TripOver(s, t), t.targetFloor) EXCEPT
            !.trips = @ (-) SetToBag({t}),
            !.detached = @ \ {t.liftIndex},
            !.liftStates[t.liftIndex].status = "idle",
            !.ev.cleared = {d \in Directions : s.floorCalls[t.targetFloor][d]},
            !.floorCalls = [f \in DOMAIN @ |-> [up |-> FALSE, down |-> FALSE]]])

\* After openCloseDoors has returned: the lift is idle, the calls of the target
\* floor are cleared (the log holds the directions that were set) and the
\* pending calls are checked.
moveLiftFinished(s, t) ==
    checkPendingCalls(
        [Release(TripOver(s, t), t.targetFloor) EXCEPT
            !.trips = @ (-) SetToBag({t}),
            !.detached = @ \ {t.liftIndex},
            !.liftStates[t.liftIndex].status = "idle",
            !.ev.cleared = {d \in Directions : s.floorCalls[t.targetFloor][d]},
            !.floorCalls[t.targetFloor] = [up |-> FALSE, down |-> FALSE]])

(***************************************************************************)
(* Actions                                                                 *)
(***************************************************************************)
\* The handler started from the state s with an empty log.
Begin(op, floor, direction, lift) ==
    [State EXCEPT !.ev = [NoEvent EXCEPT !.op = op, !.floor = floor,
                                         !.direction = direction, !.lift = lift]]

\* The variables take the values of the record s; the log of the handler and
\* the clocks are kept when `log` is set.
Commit(done, log) ==
    \E s \in {done} :
        /\ liftStates' = s.liftStates
        /\ floorCalls' = s.floorCalls
        /\ pendingCalls' = s.pendingCalls
        /\ trips' = s.trips
        /\ clock' = IF log THEN s.clock ELSE clock
        /\ lastEvent' = IF log THEN s.ev ELSE lastEvent
        /\ dom' = s.dom
        /\ UNCHANGED <<floors, lifts, previous>>

\* Variant of renderSimulation with both buttons on every floor.
HasBothButtons(floor, direction) == floor \in 1..floors

\* renderSimulation: floor i has an Up button unless it is the top floor and a
\* Down button unless it is the bottom floor.
HasButton(floor, direction) ==
    /\ floor \in 1..floors
    /\ direction = "up" => floor < floors
    /\ direction = "down" => floor > 1

\* The bounds of the model: no click is taken that would grow the queue or the
\* trips in flight beyond them.
WithinBounds(s) ==
    /\ Len(s.pendingCalls) <= MaxQueue
    /\ BagCardinality(s.trips) <= MaxTrips

\* A click (or touch) on a floor button.
CallLiftStep(log) ==
    \E floor \in 1..MaxFloors, direction \in Directions :
        /\ HasButton(floor, direction)
        /\ \E s \in {callLift(Begin("callLift", floor, direction, -1), floor, direction)} :
               WithinBounds(s) /\ Commit(s, log)

\* The travel timer of a trip of lift i completes.
MoveTimerOf(i, log) ==
    \E t \in BagToSet(trips) :
        /\ t.liftIndex = i
        /\ t.pc = "move"
        /\ Commit(moveLiftArrived(Begin("arrived", t.targetFloor, "none", i), t), log)

\* The door-open timer of a trip of lift i completes.
DoorOpenTimerOf(i, log) ==
    \E t \in BagToSet(trips) :
        /\ t.liftIndex = i
        /\ t.pc = "open"
        /\ Commit(openCloseDoorsClosing(Begin("doorsClosing", t.targetFloor, "none", i), t), log)

\* The door-close timer of a trip of lift i completes.
DoorCloseTimerOf(i, log) ==
    \E t \in BagToSet(trips) :
        /\ t.liftIndex = i
        /\ t.pc = "close"
        /\ Commit(moveLiftFinished(Begin("finished", t.targetFloor, "none", i), t), log)

CallLift == CallLiftStep(TRUE)
MoveTimer == \E i \in 0..(MaxLifts - 1) : MoveTimerOf(i, TRUE)
DoorOpenTimer == \E i \in 0..(MaxLifts - 1) : DoorOpenTimerOf(i, TRUE)
DoorCloseTimer == \E i \in 0..(MaxLifts - 1) : DoorCloseTimerOf(i, TRUE)

Next == CallLift \/ MoveTimer \/ DoorOpenTimer \/ DoorCloseTimer

Spec == Init /\ [][Next]_vars

(***************************************************************************)
(* The same handlers under fair timers: every timer set with setTimeout    *)
(* completes, clicks may or may not come.  The observation log and the     *)
(* clocks are not kept (lastEvent and clock stay as they are).             *)
(***************************************************************************)
\* Some timer of a trip of lift i completes.
TimerOf(i) ==
    \/ MoveTimerOf(i, FALSE)
    \/ DoorOpenTimerOf(i, FALSE)
    \/ DoorCloseTimerOf(i, FALSE)

FairNext == CallLiftStep(FALSE) \/ \E i \in 0..(MaxLifts - 1) : TimerOf(i)

FairSpec ==
    /\ Init
    /\ [][FairNext]_vars
    /\ \A i \in 0..(MaxLifts - 1) : WF_vars(TimerOf(i))

(***************************************************************************)
(* The earlier controller of src/unnamed/part_002: callLift does not test  *)
(* the flag and keeps no pending calls, and moveLift marks the lift idle   *)
(* on arrival, before the door cycle.  The start of moveLift and the scan  *)
(* of findNearestIdleLift are as above.                                    *)
(***************************************************************************)
callLift_part002(s, floor, direction) ==
    LET set == [s EXCEPT !.floorCalls[floor][direction] = TRUE,
                         !.ev.accepted = TRUE]
        nearestLift == findNearestIdleLift(set, floor)
    IN  IF nearestLift # -1
        THEN moveLift(set, nearestLift, floor)
        ELSE set

\* After the travel timer: the lift is at the target floor and idle, and
\* openCloseDoors opens the doors and waits.
moveLiftArrived_part002(s, t) ==
    Suspend([s EXCEPT !.liftStates[t.liftIndex].currentFloor = t.targetFloor,
                      !.liftStates[t.liftIndex].status = "idle"],
            t, "open")

\* openCloseDoors after its first timer: the doors start closing.
openCloseDoorsClosing_part002(s, t) == Suspend(s, t, "close")

\* After openCloseDoors has returned: the calls of the target floor are cleared.
moveLiftFinished_part002(s, t) ==
    [s EXCEPT !.trips = @ (-) SetToBag({t}),
              !.floorCalls[t.targetFloor] = [up |-> FALSE, down |-> FALSE]]

\* The clocks and the lift elements are not kept for this controller (a lift
\* may have several trips in flight): they stay as they are.
NoClock(s) == [s EXCEPT !.clock = clock, !.dom = dom]

CallLift_part002 ==
    \E floor \in 1..MaxFloors, direction \in Directions :
        /\ HasButton(floor, direction)
        /\ \E s \in {callLift_part002(Begin("callLift", floor, direction, -1),
                                      floor, direction)} :
               WithinBounds(s) /\ Commit(NoClock(s), TRUE)

MoveTimer_part002 ==
    \E t \in BagToSet(trips) :
        /\ t.pc = "move"
        /\ Commit(moveLiftArrived_part002(
                      Begin("arrived", t.targetFloor, "none", t.liftIndex), t), TRUE)

DoorOpenTimer_part002 ==
    \E t \in BagToSet(trips) :
        /\ t.pc = "open"
        /\ Commit(openCloseDoorsClosing_part002(
                      Begin("doorsClosing", t.targetFloor, "none", t.liftIndex), t), TRUE)

DoorCloseTimer_part002 ==
    \E t \in BagToSet(trips) :
        /\ t.pc = "close"
        /\ Commit(moveLiftFinished_part002(
                      Begin("finished", t.targetFloor, "none", t.liftIndex), t), TRUE)

NextPart002 ==
    \/ CallLift_part002
    \/ MoveTimer_part002
    \/ DoorOpenTimer_part002
    \/ DoorCloseTimer_part002

SpecPart002 == Init /\ [][NextPart002]_vars

(***************************************************************************)
(* The functional controller of src/js/main_functional.js: its functions   *)
(* take the state object as their first argument.  They are written here   *)
(* from that file, statement by statement, apart from the operators above  *)
(* (which follow main.js), so that the two controllers can be compared.    *)
(***************************************************************************)
\* findNearestIdleLift(state, floor): the for loop, from index i on.
RECURSIVE ScanLifts_functional(_, _, _, _, _)
ScanLifts_functional(state, floor, i, nearestLift, minDistance) ==
    IF ~(i < state.lifts) THEN nearestLift
    ELSE IF state.liftStates[i].status = "idle"
         THEN LET distance == Abs(state.liftStates[i].currentFloor - floor)
              IN  IF distance < minDistance
                  THEN ScanLifts_functional(state, floor, i + 1, i, distance)
                  ELSE ScanLifts_functional(state, floor, i + 1, nearestLift,
                                            minDistance)
         ELSE ScanLifts_functional(state, floor, i + 1, nearestLift, minDistance)

findNearestIdleLift_functional(state, floor) ==
    ScanLifts_functional(state, floor, 0, -1, Infinity)

\* moveLift(state, liftIndex, targetFloor) up to its first await.
moveLift_functional(state, liftIndex, targetFloor) ==
    LET liftState == state.liftStates[liftIndex]
        floorsToMove == Abs(targetFloor - liftState.currentFloor)
        moveTime == floorsToMove * 2000
    IN  [state EXCEPT
            !.ev.dispatched = liftIndex,
            !.ev.onIdle = /\ liftState.status = "idle"
                          /\ TripsOf(state.trips, liftIndex) = 0,
            !.liftStates[liftIndex].status = "moving",
            !.clock[liftIndex] = [from |-> liftState.currentFloor,
                                  delay |-> moveTime, busy |-> 0],
            !.trips = @ (+) SetToBag({[liftIndex |-> liftIndex,
                                       targetFloor |-> targetFloor,
                                       pc |-> "move"]})]

\* checkPendingCalls(state)
checkPendingCalls_functional(state) ==
    IF Len(state.pendingCalls) > 0
    THEN LET nextCall == state.pendingCalls[1]
             shifted == [state EXCEPT
                            !.pendingCalls = SubSeq(@, 2, Len(@)),
                            !.ev.dequeued = TRUE]
             nearestLift == findNearestIdleLift_functional(shifted, nextCall.floor)
         IN  IF nearestLift # -1
             THEN moveLift_functional(shifted, nearestLift, nextCall.floor)
             ELSE [shifted EXCEPT !.pendingCalls = <<nextCall>> \o @,
                                  !.ev.requeued = TRUE]
    ELSE state

\* callLift(state, floor, direction)
callLift_functional(state, floor, direction) ==
    IF ~state.floorCalls[floor][direction]
    THEN LET set == [state EXCEPT !.floorCalls[floor][direction] = TRUE,
                                  !.ev.accepted = TRUE]
             nearestLift == findNearestIdleLift_functional(set, floor)
         IN  IF nearestLift # -1
             THEN moveLift_functional(set, nearestLift, floor)
             ELSE [set EXCEPT
                      !.pendingCalls = @ \o <<[floor |-> floor,
                                               direction |-> direction]>>,
                      !.ev.enqueued = TRUE]
    ELSE state

\* moveLift after the travel timer, with openCloseDoors up to its first await
\* (2500 ms).
moveLiftArrived_functional(state, t) ==
    Suspend(SetTimeout([TimerFired(state, t.liftIndex) EXCEPT
                           !.liftStates[t.liftIndex].currentFloor = t.targetFloor],
                       t.liftIndex, 2500),
            t, "open")

\* openCloseDoors after its first timer, up to its second await (2500 ms).
openCloseDoorsClosing_functional(state, t) ==
    Suspend(SetTimeout(TimerFired(state, t.liftIndex), t.liftIndex, 2500),
            t, "close")

\* moveLift after openCloseDoors has returned.
moveLiftFinished_functional(state, t) ==
    LET idle == [TripOver(state, t) EXCEPT
                    !.trips = @ (-) SetToBag({t}),
                    !.liftStates[t.liftIndex].status = "idle"]
        up == [idle EXCEPT !.floorCalls[t.targetFloor].up = FALSE]
        down == [up EXCEPT !.floorCalls[t.targetFloor].down = FALSE]
    IN  checkPendingCalls_functional(
            [down EXCEPT !.ev.cleared =
                {d \in Directions : state.floorCalls[t.targetFloor][d]}])

\* The handler of main_functional.js for the event that the log of a step of
\* the controller names, run from the state before the step.
Functional(ev) ==
    LET start == Begin(ev.op, ev.floor, ev.direction, ev.lift)
        trip(pc) == [liftIndex |-> ev.lift, targetFloor |-> ev.floor, pc |-> pc]
    IN  CASE ev.op = "callLift" ->
                 callLift_functional(start, ev.floor, ev.direction)
          [] ev.op = "arrived" -> moveLiftArrived_functional(start, trip("move"))
          [] ev.op = "doorsClosing" ->
                 openCloseDoorsClosing_functional(start, trip("open"))
          [] ev.op = "finished" -> moveLiftFinished_functional(start, trip("close"))

(***************************************************************************)
(* The functional controller of src/unnamed/part_001: it differs from      *)
(* main_functional.js in openCloseDoors, whose first wait is shorter.      *)
(***************************************************************************)
\* openCloseDoors of part_001 up to its first await: the doors open.
openCloseDoors_part001(s, t) ==
    Suspend(SetTimeout(s, t.liftIndex, DoorOpenTime_part001), t, "open")

\* After the travel timer: the lift is at the target floor and openCloseDoors
\* is called.
moveLiftArrived_part001(s, t) ==
    openCloseDoors_part001(
        [TimerFired(s, t.liftIndex) EXCEPT
            !.liftStates[t.liftIndex].currentFloor = t.targetFloor],
        t)

MoveTimer_part001 ==
    \E t \in BagToSet(trips) :
        /\ t.pc = "move"
        /\ Commit(moveLiftArrived_part001(
                      Begin("arrived", t.targetFloor, "none", t.liftIndex), t), TRUE)

NextPart001 == CallLift \/ MoveTimer_part001 \/ DoorOpenTimer \/ DoorCloseTimer

SpecPart001 == Init /\ [][NextPart001]_vars

(***************************************************************************)
(* findNearestIdleLift as a function of the lifts: the lifts are anywhere  *)
(* in a building of FloorsLimit floors, idle or cycling their doors at the *)
(* floor they are at, and the function is applied for some floor.          *)
(***************************************************************************)
SelectInit ==
    /\ floors = FloorsLimit
    /\ lifts \in 1..MaxSelectLifts
    /\ liftStates \in [0..(lifts - 1) ->
                          [currentFloor : 1..floors, status : {"idle", "moving"}]]
    /\ floorCalls = [f \in 0..floors |-> [up |-> FALSE, down |-> FALSE]]
    /\ pendingCalls = <<>>
    /\ trips = SetToBag({[liftIndex |-> i,
                          targetFloor |-> liftStates[i].currentFloor,
                          pc |-> "open"] :
                            i \in {j \in 0..(lifts - 1) : liftStates[j].status = "moving"}})
    /\ clock = [i \in 0..(lifts - 1) |->
                   IF liftStates[i].status = "moving"
                   THEN [from |-> liftStates[i].currentFloor, delay |-> DoorTime,
                         busy |-> 0]
                   ELSE NoTimer]
    /\ lastEvent = NoEvent
    /\ dom = [Document(floors, lifts) EXCEPT
                 !.bottom = [i \in 0..(lifts - 1) |-> liftStates[i].currentFloor],
                 !.open = [i \in 0..(lifts - 1) |-> liftStates[i].status = "moving"]]
    /\ previous = NoSimulation

\* findNearestIdleLift(floor) is evaluated, once; the log holds the floor and
\* the lift returned.
Select ==
    \E floor \in 1..floors :
        /\ lastEvent.op = "init"
        /\ lastEvent' = [NoEvent EXCEPT !.op = "findNearestIdleLift",
                                        !.floor = floor,
                                        !.lift = findNearestIdleLift(State, floor)]
        /\ UNCHANGED <<floors, lifts, liftStates, floorCalls, pendingCalls, trips,
                       clock, dom, previous>>

SelectSpec == SelectInit /\ [][Select]_vars

(***************************************************************************)
(* checkPendingCalls as a method of its own: besides the call at the end   *)
(* of moveLift, the method (a global function in main_functional.js) is    *)
(* invoked at any moment between two handlers of the controller.           *)
(***************************************************************************)
CheckPendingCalls ==
    Commit(checkPendingCalls(Begin("checkPendingCalls", 0, "none", -1)), TRUE)

NextPending == Next \/ CheckPendingCalls

PendingSpec == Init /\ [][NextPending]_vars

(***************************************************************************)
(* Starting a simulation.  The page has the fields #floors and #lifts; a   *)
(* handler reads them with parseInt, which gives NaN or an integer.  The   *)
(* variables are the fields of the simulation constructed last (floors = 0 *)
(* and no lifts before the first).  main.js has a click handler on         *)
(* #start-simulation and a DOMContentLoaded handler, main_functional.js    *)
(* has a click handler on #start-simulation.                               *)
(***************************************************************************)
\* The results of parseInt on the two fields.
NaN == [nan |-> TRUE, n |-> 0]
Number(n) == [nan |-> FALSE, n |-> n]
FloorsInputs == {NaN} \cup {Number(n) : n \in (-2)..(FloorsLimit + 1)}
LiftsInputs == {NaN} \cup {Number(n) : n \in (-1)..(LiftsLimit + 1)}

\* The page before any simulation is constructed.
StartInit ==
    /\ floors = 0
    /\ lifts = 0
    /\ liftStates = <<>>
    /\ floorCalls = <<>>
    /\ pendingCalls = <<>>
    /\ trips = EmptyBag
    /\ clock = <<>>
    /\ lastEvent = NoEvent
    /\ dom = EmptyDocument
    /\ previous = NoSimulation

\* x + k in JavaScript.
Plus(x, k) == IF x.nan THEN NaN ELSE Number(x.n + k)

\* Array(x) throws a RangeError unless x is a length.
ArrayThrows(x) == x.nan \/ x.n < 0

\* Variant of the constructor that puts the lifts at floor 0.
constructorLiftsAtGround(s, fl, li) ==
    IF ArrayThrows(li) \/ ArrayThrows(Plus(fl, 1))
    THEN [s EXCEPT !.ev.thrown = TRUE]
    ELSE renderSimulation([s EXCEPT
             !.floors = fl.n,
             !.lifts = li.n,
             !.liftStates = [i \in 0..(li.n - 1) |->
                                [currentFloor |-> 0, status |-> "idle"]],
             !.floorCalls = [f \in 0..fl.n |-> [up |-> FALSE, down |-> FALSE]],
             !.clock = [i \in 0..(li.n - 1) |-> NoTimer]])

\* new LiftSimulation(floors, lifts) / createInitialState(floors, lifts): the
\* arrays are made for the lifts and then for the floors; when Array throws,
\* the handler ends there and nothing is assigned.  Otherwise init() follows
\* and renders the simulation.
constructor(s, fl, li) ==
    IF ArrayThrows(li) \/ ArrayThrows(Plus(fl, 1))
    THEN [s EXCEPT !.ev.thrown = TRUE]
    ELSE renderSimulation([s EXCEPT
             !.floors = fl.n,
             !.lifts = li.n,
             !.liftStates = [i \in 0..(li.n - 1) |->
                                [currentFloor |-> 1, status |-> "idle"]],
             !.floorCalls = [f \in 0..fl.n |-> [up |-> FALSE, down |-> FALSE]],
             !.pendingCalls = <<>>,
             !.clock = [i \in 0..(li.n - 1) |-> NoTimer]])

\* The click handler of #start-simulation in main.js.
startSimulation(s, fl, li) ==
    IF fl.nan \/ fl.n < 2 \/ fl.n > FloorsLimit
    THEN [s EXCEPT !.ev.error = "Please enter a valid number of floors (2-9)."]
    ELSE IF li.nan \/ li.n < 1 \/ li.n > LiftsLimit
         THEN [s EXCEPT !.ev.error = "Please enter a valid number of lifts (1-5)."]
         ELSE constructor([s EXCEPT !.ev.error = ""], fl, li)

\* The DOMContentLoaded handler of main.js.
domContentLoaded(s, fl, li) == constructor(s, fl, li)

\* The click handler of #start-simulation in main_functional.js.
startSimulation_functional(s, fl, li) == constructor(s, fl, li)

\* The variables, floors and lifts included, take the values of the record.
CommitStart(done) ==
    \E s \in {done} :
        /\ floors' = s.floors
        /\ lifts' = s.lifts
        /\ liftStates' = s.liftStates
        /\ floorCalls' = s.floorCalls
        /\ pendingCalls' = s.pendingCalls
        /\ trips' = s.trips
        /\ clock' = s.clock
        /\ lastEvent' = s.ev
        /\ dom' = s.dom
        /\ UNCHANGED previous

\* The handler started with the values read from the two fields.
BeginStart(op, fl, li) ==
    [State EXCEPT !.ev = [NoEvent EXCEPT !.op = op, !.input = <<fl, li>>]]

StartSimulation ==
    \E fl \in FloorsInputs, li \in LiftsInputs :
        CommitStart(startSimulation(BeginStart("startSimulation", fl, li), fl, li))

\* The page has just been loaded.
DOMContentLoaded ==
    /\ lastEvent.op = "init"
    /\ \E fl \in FloorsInputs, li \in LiftsInputs :
           CommitStart(domContentLoaded(BeginStart("DOMContentLoaded", fl, li), fl, li))

StartSimulation_functional ==
    \E fl \in FloorsInputs, li \in LiftsInputs :
        CommitStart(startSimulation_functional(
                        BeginStart("startSimulation_functional", fl, li), fl, li))

StartNext == StartSimulation \/ DOMContentLoaded \/ StartSimulation_functional

StartSpec == StartInit /\ [][StartNext]_vars

(***************************************************************************)
(* Re-configuration: #start-simulation is clicked while a simulation runs. *)
(* The handler constructs a new simulation object and renders it; nothing  *)
(* cancels the timers of the object it replaces, whose suspended moveLift  *)
(* invocations go on with that object as `this`.  Its floor buttons are    *)
(* out of the document, so it takes no more clicks.  The lift element a    *)
(* suspended invocation holds is out of the document as well, but          *)
(* document.getElementById and document.querySelectorAll, called after the *)
(* re-configuration, find the elements of the new simulation.  The log and *)
(* the clocks are not kept.  The replaced object is kept while it has      *)
(* timers pending, and the button is clicked again only when it has none.  *)
(***************************************************************************)
\* The record for a handler that runs on the replaced simulation object.
PreviousState ==
    [floors |-> previous.floors, lifts |-> previous.lifts,
     liftStates |-> previous.liftStates, floorCalls |-> previous.floorCalls,
     pendingCalls |-> previous.pendingCalls, trips |-> previous.trips,
     clock |-> [i \in 0..(previous.lifts - 1) |-> NoTimer], ev |-> NoEvent,
     dom |-> dom, detached |-> previous.detached]

\* The simulation object of the record s, for as long as it has timers.
Simulation(s) ==
    IF s.trips = EmptyBag
    THEN NoSimulation
    ELSE [floors |-> s.floors, lifts |-> s.lifts, liftStates |-> s.liftStates,
          floorCalls |-> s.floorCalls, pendingCalls |-> s.pendingCalls,
          trips |-> s.trips, detached |-> s.detached]

\* The click on #start-simulation with valid values in the two fields.
Restart ==
    \E fl \in 2..MaxFloors, li \in 1..MaxLifts :
        /\ fl * li <= MaxRestartCells
        /\ previous = NoSimulation
        /\ \E s \in {startSimulation(BeginStart("startSimulation", Number(fl),
                                                Number(li)),
                                    Number(fl), Number(li))} :
               /\ floors' = s.floors
               /\ lifts' = s.lifts
               /\ liftStates' = s.liftStates
               /\ floorCalls' = s.floorCalls
               /\ pendingCalls' = s.pendingCalls
               /\ trips' = EmptyBag
               /\ clock' = s.clock
               /\ dom' = s.dom
               /\ previous' = Simulation([State EXCEPT
                                  !.detached = {t.liftIndex : t \in BagToSet(trips)}])
               /\ UNCHANGED lastEvent

\* A timer of the replaced simulation object completes.
PreviousTimer ==
    \E t \in BagToSet(previous.trips) :
        \E s \in {CASE t.pc = "move" -> moveLiftArrived(PreviousState, t)
                    [] t.pc = "open" -> openCloseDoorsClosing(PreviousState, t)
                    [] t.pc = "close" -> moveLiftFinished(PreviousState, t)} :
            /\ previous' = Simulation(s)
            /\ dom' = s.dom
            /\ UNCHANGED <<floors, lifts, liftStates, floorCalls, pendingCalls,
                           trips, clock, lastEvent>>

RestartNext ==
    \/ CallLiftStep(FALSE)
    \/ \E i \in 0..(MaxLifts - 1) : TimerOf(i)
    \/ Restart
    \/ PreviousTimer

RestartSpec == Init /\ [][RestartNext]_vars

(***************************************************************************)
(* Properties                                                              *)
(***************************************************************************)
\* The step is a run of callLift(floor, direction).
IsCall(floor, direction) ==
    /\ lastEvent'.op = "callLift"
    /\ lastEvent'.floor = floor
    /\ lastEvent'.direction = direction

\* The fields of the simulation object and the trips in flight are unchanged.
CoreUnchanged == UNCHANGED <<liftStates, floorCalls, pendingCalls, trips>>

\* C1: a callLift(f, d) made while floorCalls[f][d] is already true is a
\* no-op: the registry, the pending calls, every lift and the trips in flight
\* are as before (one flag for (f, d), nothing enqueued, no lift assigned).
C1_DuplicateCallIsNoOp ==
    [][\A f \in 1..floors, d \in Directions :
          (IsCall(f, d) /\ floorCalls[f][d]) => CoreUnchanged]_vars

\* A duplicate click has just been processed while its request is unserved.
C1_Witness ==
    /\ lastEvent.op = "callLift"
    /\ ~lastEvent.accepted
    /\ floorCalls[lastEvent.floor][lastEvent.direction]
    /\ \/ \E k \in DOMAIN pendingCalls :
              pendingCalls[k] = [floor |-> lastEvent.floor,
                                 direction |-> lastEvent.direction]
       \/ \E t \in BagToSet(trips) : t.targetFloor = lastEvent.floor

\* The step clears floorCalls[f][d].
Cleared(f, d) == floorCalls[f][d] /\ ~floorCalls'[f][d]

\* The step completes the door cycle of a trip to floor f.
DoorCycleDoneAt(f) ==
    \E t \in BagToSet(trips) :
        /\ t.pc = "close"
        /\ t.targetFloor = f
        /\ CopiesIn(t, trips') < CopiesIn(t, trips)
        /\ liftStates[t.liftIndex].currentFloor = f

\* C2: with every timer completing, an accepted request (f, d) is served,
\* whether a lift was sent at once or the request had to wait: its flag
\* floorCalls[f][d] is false again later, and it becomes false in a step in
\* which a lift completes its door cycle at floor f.
C2_RequestEventuallyServed ==
    /\ \A f \in 1..MaxFloors, d \in Directions :
           []<>(~(f <= floors /\ floorCalls[f][d]))
    /\ [][\A f \in 1..floors, d \in Directions :
              Cleared(f, d) => DoorCycleDoneAt(f)]_vars

\* A lift has served a floor above the first (it rests there, no trip to the
\* floor is in flight and the flags of the floor are false) while requests
\* wait in the pending calls.
C2_Witness ==
    \E i \in 0..(lifts - 1) :
        LET f == liftStates[i].currentFloor
        IN  /\ f > 1
            /\ ~floorCalls[f].up /\ ~floorCalls[f].down
            /\ \A t \in BagToSet(trips) : t.targetFloor # f
            /\ Len(pendingCalls) > 0

\* The step is the completion of a door cycle (the last part of moveLift).
IsFinish == lastEvent'.op = "finished"

\* In the state after the step, lift i is moving and a trip of lift i to floor
\* f waits on its travel timer.
HeadingFor(i, f) ==
    /\ i \in 0..(lifts - 1)
    /\ liftStates'[i].status = "moving"
    /\ BagIn([liftIndex |-> i, targetFloor |-> f, pc |-> "move"], trips')

\* C3: when a lift finishes its door cycle while pendingCalls is non-empty,
\* the head of pendingCalls is dispatched in that same step: it is removed
\* from the queue and a lift that was idle, or is the one that just finished,
\* is moving towards its floor.
C3_HeadDispatchedOnFinish ==
    [][(IsFinish /\ pendingCalls # <<>>) =>
          /\ pendingCalls' = Tail(pendingCalls)
          /\ HeadingFor(lastEvent'.dispatched, Head(pendingCalls).floor)
          /\ \/ lastEvent'.dispatched = lastEvent'.lift
             \/ liftStates[lastEvent'.dispatched].status = "idle"]_vars

\* A door cycle has just finished with a request waiting, and the lift that
\* finished is on its way to another floor for that request.
C3_Witness ==
    /\ lastEvent.op = "finished"
    /\ lastEvent.dequeued
    /\ lastEvent.dispatched = lastEvent.lift
    /\ \E t \in BagToSet(trips) :
           /\ t.liftIndex = lastEvent.lift
           /\ t.pc = "move"
           /\ t.targetFloor # lastEvent.floor

\* C4: pendingCalls is a FIFO queue.  A step leaves it unchanged, or appends
\* the request of the click at its tail without dispatching any queued
\* request, or removes its head and sends a lift to the floor of that head;
\* so of two queued requests the one enqueued first is dispatched first.
C4_QueueIsFifo ==
    [][\/ pendingCalls' = pendingCalls
       \/ /\ lastEvent'.op = "callLift"
          /\ pendingCalls' = Append(pendingCalls,
                                    [floor |-> lastEvent'.floor,
                                     direction |-> lastEvent'.direction])
          /\ lastEvent'.dispatched = -1
       \/ /\ pendingCalls # <<>>
          /\ pendingCalls' = Tail(pendingCalls)
          /\ HeadingFor(lastEvent'.dispatched, Head(pendingCalls).floor)]_vars

\* Two requests for different floors were waiting; the older one has just been
\* dispatched and the newer one is still in the queue.
C4_Witness ==
    /\ lastEvent.op = "finished"
    /\ lastEvent.dequeued
    /\ Len(pendingCalls) >= 1
    /\ \E t \in BagToSet(trips) :
           /\ t.liftIndex = lastEvent.dispatched
           /\ t.pc = "move"
           /\ t.targetFloor # pendingCalls[1].floor

\* C5: every request in pendingCalls still has its registry flag set.
C5_QueuedRequestsAreFlagged ==
    \A k \in DOMAIN pendingCalls :
        floorCalls[pendingCalls[k].floor][pendingCalls[k].direction]

\* The lifts with status idle, and the distance of lift i from a floor.
IdleLifts == {i \in 0..(lifts - 1) : liftStates[i].status = "idle"}
Distance(i, floor) == Abs(liftStates[i].currentFloor - floor)

\* findNearestIdleLift(floor) has just been evaluated and has returned r.
Selected(floor, r) ==
    /\ lastEvent.op = "findNearestIdleLift"
    /\ lastEvent.floor = floor
    /\ lastEvent.lift = r

\* C6: when some lift is idle, findNearestIdleLift(floor) returns an idle lift
\* whose distance from the floor is minimal among the idle lifts; a lift that
\* is not idle is never returned, however close it is.
C6_NearestIdleLiftSelected ==
    (lastEvent.op = "findNearestIdleLift" /\ IdleLifts # {}) =>
        LET floor == lastEvent.floor
            r == lastEvent.lift
        IN  /\ r \in IdleLifts
            /\ \A j \in IdleLifts : Distance(r, floor) <= Distance(j, floor)

\* Idle lifts at floors 1, 5 and 9 and a request for floor 6: the lift at
\* floor 5 is returned.
C6_Witness ==
    /\ lifts = 3
    /\ IdleLifts = {0, 1, 2}
    /\ liftStates[0].currentFloor = 1
    /\ liftStates[1].currentFloor = 5
    /\ liftStates[2].currentFloor = 9
    /\ Selected(6, 1)

\* C7: of several idle lifts at the same minimal distance, findNearestIdleLift
\* returns the one with the lowest index.
C7_TieBrokenByLowestIndex ==
    (lastEvent.op = "findNearestIdleLift" /\ lastEvent.lift # -1) =>
        LET floor == lastEvent.floor
            r == lastEvent.lift
        IN  \A j \in IdleLifts : Distance(j, floor) = Distance(r, floor) => r <= j

\* Idle lifts at floors 3 and 7 and a request for floor 5: the first of the
\* two is returned.
C7_Witness ==
    /\ lifts = 2
    /\ IdleLifts = {0, 1}
    /\ liftStates[0].currentFloor = 3
    /\ liftStates[1].currentFloor = 7
    /\ Selected(5, 0)

\* C8: moveLift is only invoked on a lift that is idle and has no trip in
\* flight, so every lift has at most one trip in flight, and a lift is idle
\* exactly when it has none.
C8_DispatchOnlyWhenIdle ==
    /\ lastEvent.onIdle
    /\ \A i \in 0..(lifts - 1) :
           /\ TripsOf(trips, i) <= 1
           /\ liftStates[i].status = "idle" <=> TripsOf(trips, i) = 0

\* A click has just sent a lift while another lift, at the floor of the click,
\* is still on its trip.
C8_Witness ==
    /\ lastEvent.op = "callLift"
    /\ lastEvent.dispatched # -1
    /\ \E t \in BagToSet(trips) :
           /\ t.liftIndex # lastEvent.dispatched
           /\ t.pc # "move"
           /\ t.targetFloor = lastEvent.floor

\* Lift i is on a trip: an invocation of moveLift for it has not finished its
\* travel or its door cycle.
OnTrip(i) == TripsOf(trips, i) > 0

\* C9: from its dispatch until its doors have finished closing, a lift is not
\* chosen by findNearestIdleLift, for any floor.
C9_NotSelectableDuringTrip ==
    \A i \in 0..(lifts - 1), floor \in 1..floors :
        OnTrip(i) => findNearestIdleLift(State, floor) # i

\* The step is a run of callLift(floor, direction) that accepts the request.
IsAcceptedCall(floor, direction) ==
    IsCall(floor, direction) /\ ~floorCalls[floor][direction]

\* Lift i is as before the step.
LiftUnchanged(i) == liftStates'[i] = liftStates[i]

\* C10: a callLift that accepts a request (f, d) either sends exactly one lift
\* (the one findNearestIdleLift selects, when some lift is idle) and leaves
\* pendingCalls unchanged, or (when no lift is idle) changes no lift and
\* appends (f, d) at the tail of pendingCalls; never both.
C10_DispatchOrEnqueue ==
    [][\A f \in 1..floors, d \in Directions :
          IsAcceptedCall(f, d) =>
              IF IdleLifts # {}
              THEN LET r == findNearestIdleLift(State, f)
                   IN  /\ HeadingFor(r, f)
                       /\ liftStates[r].status = "idle"
                       /\ \A j \in 0..(lifts - 1) : j # r => LiftUnchanged(j)
                       /\ trips' = trips (+) SetToBag({[liftIndex |-> r,
                                                        targetFloor |-> f,
                                                        pc |-> "move"]})
                       /\ pendingCalls' = pendingCalls
              ELSE /\ liftStates' = liftStates
                   /\ trips' = trips
                   /\ pendingCalls' = Append(pendingCalls,
                                             [floor |-> f, direction |-> d])]_vars

\* A request has just been put at the tail of a non-empty queue, no lift being
\* idle.
C10_Witness ==
    /\ lastEvent.op = "callLift"
    /\ lastEvent.accepted
    /\ lastEvent.enqueued
    /\ IdleLifts = {}
    /\ Len(pendingCalls) >= 2
    /\ pendingCalls[Len(pendingCalls)] = [floor |-> lastEvent.floor,
                                          direction |-> lastEvent.direction]

\* The step runs checkPendingCalls: at the end of moveLift or on its own.
RunsCheckPendingCalls == lastEvent'.op \in {"finished", "checkPendingCalls"}

\* C11: checkPendingCalls never loses a request.  A run of it on a non-empty
\* queue either takes the head off the queue and sends a lift to the floor of
\* that head, or (no lift being idle) leaves pendingCalls exactly as it was,
\* with the head back in front, and sends no lift.
C11_NoRequestLost ==
    [][(RunsCheckPendingCalls /\ pendingCalls # <<>>) =>
          \/ /\ pendingCalls' = Tail(pendingCalls)
             /\ lastEvent'.dequeued /\ ~lastEvent'.requeued
             /\ HeadingFor(lastEvent'.dispatched, Head(pendingCalls).floor)
          \/ /\ IdleLifts = {}
             /\ lastEvent'.op = "checkPendingCalls"
             /\ lastEvent'.dequeued /\ lastEvent'.requeued
             /\ lastEvent'.dispatched = -1
             /\ pendingCalls' = pendingCalls
             /\ liftStates' = liftStates /\ trips' = trips]_vars

\* checkPendingCalls has just run with two requests waiting and no lift idle:
\* the head was taken off and put back, and both requests are still waiting.
C11_Witness ==
    /\ lastEvent.op = "checkPendingCalls"
    /\ lastEvent.dequeued /\ lastEvent.requeued
    /\ IdleLifts = {}
    /\ Len(pendingCalls) = 2
    /\ pendingCalls[1] # pendingCalls[2]

\* The trip t was sent to the floor its lift was resting at.
SameFloorTrip(t) == clock[t.liftIndex].from = t.targetFloor

\* The step is a timer completion of the trip of lift i.
IsTimerOf(i) ==
    /\ lastEvent'.op \in {"arrived", "doorsClosing", "finished"}
    /\ lastEvent'.lift = i

\* C12: a trip of a lift to the floor it was resting at has no travel: its
\* travel timer is one of 0 ms, the lift stays at that floor throughout, the
\* trip goes through one door-open wait and then one door-close wait and
\* nothing else (2 * DoorTime in all), and at its end the lift is idle (or has
\* been sent again, for a pending call, by the same handler).
C12_SameFloorTripCyclesDoors ==
    [][\A t \in BagToSet(trips) :
          SameFloorTrip(t) =>
              LET i == t.liftIndex
                  f == t.targetFloor
                  opened == [t EXCEPT !.pc = "open"]
                  closing == [t EXCEPT !.pc = "close"]
              IN  /\ liftStates[i].currentFloor = f
                  /\ liftStates'[i].currentFloor = f
                  /\ liftStates[i].status = "moving"
                  /\ t.pc = "move" => (clock[i].delay = 0 /\ clock[i].busy = 0)
                  /\ IF IsTimerOf(i)
                     THEN \/ /\ t.pc = "move"
                             /\ lastEvent'.op = "arrived"
                             /\ trips' = (trips (-) SetToBag({t})) (+) SetToBag({opened})
                             /\ clock'[i].busy = 0 /\ clock'[i].delay = DoorTime
                          \/ /\ t.pc = "open"
                             /\ lastEvent'.op = "doorsClosing"
                             /\ trips' = (trips (-) SetToBag({t})) (+) SetToBag({closing})
                             /\ clock'[i].busy = DoorTime /\ clock'[i].delay = DoorTime
                          \/ /\ t.pc = "close"
                             /\ lastEvent'.op = "finished"
                             /\ lastEvent'.elapsed = 2 * DoorTime
                             /\ \/ /\ liftStates'[i].status = "idle"
                                   /\ TripsOf(trips', i) = 0
                                \/ /\ lastEvent'.dispatched = i
                                   /\ lastEvent'.dequeued
                     ELSE /\ BagIn(t, trips')
                          /\ clock'[i] = clock[i]
                          /\ liftStates'[i] = liftStates[i]]_vars

\* A lift that was called to the floor it was resting at has just finished
\* its door cycle there and is idle.
C12_Witness ==
    /\ lastEvent.op = "finished"
    /\ lastEvent.from = lastEvent.floor
    /\ lastEvent.elapsed = 2 * DoorTime
    /\ liftStates[lastEvent.lift].status = "idle"
    /\ liftStates[lastEvent.lift].currentFloor = lastEvent.floor

\* The requests (floor, direction) whose flag the step turns from true to
\* false: the request-cleared notifications of the step.
ClearedInStep ==
    {r \in (1..floors) \X Directions : Cleared(r[1], r[2])}

\* C13: in the cycle of a lift to floor f (dispatch, travel, doors), the
\* travel and door-open timers clear no flag, and the completion of the door
\* cycle clears, in one step, the flag of exactly each direction that was
\* active at f, once; the lift is then idle (or has been sent again, for a
\* pending call, by the same handler).
C13_ClearedOncePerActiveDirection ==
    [][\A i \in 0..(lifts - 1) :
          IsTimerOf(i) =>
              IF lastEvent'.op = "finished"
              THEN LET f == lastEvent'.floor
                   IN  /\ ClearedInStep = {<<f, d>> : d \in {e \in Directions : floorCalls[f][e]}}
                       /\ lastEvent'.cleared = {d \in Directions : floorCalls[f][d]}
                       /\ \A d \in Directions : ~floorCalls'[f][d]
                       /\ \/ liftStates'[i].status = "idle"
                          \/ lastEvent'.dispatched = i /\ lastEvent'.dequeued
              ELSE ClearedInStep = {}]_vars

\* A lift has just finished its door cycle at a floor where both directions
\* were active: both were cleared and the lift is idle at the floor.
C13_Witness ==
    /\ lastEvent.op = "finished"
    /\ lastEvent.cleared = Directions
    /\ \A d \in Directions : ~floorCalls[lastEvent.floor][d]
    /\ liftStates[lastEvent.lift].status = "idle"
    /\ liftStates[lastEvent.lift].currentFloor = lastEvent.floor

\* C14: when a lift finishes its door cycle at floor f, floorCalls[f].up and
\* floorCalls[f].down are both false afterwards, whichever of them the lift
\* was sent for, and the flags of every other floor are as before the step.
C14_FinishClearsBothFlagsOfFloorOnly ==
    [][IsFinish =>
          /\ floorCalls'[lastEvent'.floor] = [up |-> FALSE, down |-> FALSE]
          /\ \A g \in DOMAIN floorCalls :
                 g # lastEvent'.floor => floorCalls'[g] = floorCalls[g]
          /\ DOMAIN floorCalls' = DOMAIN floorCalls]_vars

\* A lift has just finished at a floor where both directions were active, and
\* a flag of another floor is still set.
C14_Witness ==
    /\ lastEvent.op = "finished"
    /\ lastEvent.cleared = Directions
    /\ floorCalls[lastEvent.floor] = [up |-> FALSE, down |-> FALSE]
    /\ \E g \in 1..floors, d \in Directions :
           g # lastEvent.floor /\ floorCalls[g][d]

\* The trips started by the step.
StartedInStep == {t \in BagToSet(trips') : CopiesIn(t, trips') > CopiesIn(t, trips)}

\* C15: one lift-idle event (the end of a door cycle) takes at most one
\* request off pendingCalls, its head, and sends at most one lift, whatever
\* the number of requests waiting: the other requests stay in the queue, in
\* their order.
C15_OneRequestPerIdleEvent ==
    [][IsFinish =>
          /\ \/ pendingCalls' = pendingCalls /\ StartedInStep = {}
             \/ /\ pendingCalls # <<>>
                /\ pendingCalls' = Tail(pendingCalls)
                /\ Cardinality(StartedInStep) = 1
          /\ BagCardinality(trips') <= BagCardinality(trips)
          /\ Cardinality({i \in 0..(lifts - 1) :
                             liftStates[i].status = "idle"
                                 /\ liftStates'[i].status = "moving"}) <= 1
          /\ \A t \in StartedInStep :
                 /\ t.pc = "move"
                 /\ CopiesIn(t, trips') = CopiesIn(t, trips) + 1
                 /\ t.liftIndex = lastEvent'.dispatched]_vars

\* A door cycle has just finished with two requests waiting and two lifts out:
\* one request was taken and one lift sent, the other request still waits.
C15_Witness ==
    /\ lastEvent.op = "finished"
    /\ lastEvent.dequeued
    /\ lastEvent.dispatched # -1
    /\ lifts = 2
    /\ Len(pendingCalls) = 1
    /\ IdleLifts = {}

\* The values read from the fields are a number of floors in 2..9 and a number
\* of lifts in 1..5.
ValidInput(input) ==
    /\ ~input[1].nan /\ input[1].n \in 2..FloorsLimit
    /\ ~input[2].nan /\ input[2].n \in 1..LiftsLimit

\* The step is a run of a handler that starts a simulation.
IsStart ==
    lastEvent'.op \in {"startSimulation", "DOMContentLoaded",
                       "startSimulation_functional"}

\* C16: a handler that starts a simulation and reads anything but a number of
\* floors in 2..9 and a number of lifts in 1..5 (NaN included) constructs
\* nothing and changes nothing of the simulation, and shows an error message.
C16_InvalidInputRejected ==
    [][(IsStart /\ ~ValidInput(lastEvent'.input)) =>
          /\ floors' = floors /\ lifts' = lifts
          /\ CoreUnchanged
          /\ lastEvent'.error # ""]_vars

\* C17: a trip of a lift from floor c to floor t waits |t - c| * 2000 ms for
\* the travel (0 ms when t = c), then 2500 ms with the doors open, then
\* 2500 ms while they close: the lift is idle |t - c| * 2000 + 5000 ms after
\* it was sent.
C17_TripTakesTravelPlusDoors ==
    [][\A i \in 0..(lifts - 1) :
          IsTimerOf(i) =>
              LET travel == Abs(lastEvent'.floor - clock[i].from) * 2000
              IN  \/ /\ lastEvent'.op = "arrived"
                     /\ clock[i].busy = 0 /\ clock[i].delay = travel
                     /\ clock'[i].busy = travel /\ clock'[i].delay = 2500
                  \/ /\ lastEvent'.op = "doorsClosing"
                     /\ clock[i].busy = travel /\ clock[i].delay = 2500
                     /\ clock'[i].busy = travel + 2500 /\ clock'[i].delay = 2500
                  \/ /\ lastEvent'.op = "finished"
                     /\ lastEvent'.from = clock[i].from
                     /\ lastEvent'.elapsed = travel + 5000
                     /\ \/ liftStates'[i].status = "idle"
                        \/ lastEvent'.dispatched = i /\ lastEvent'.dequeued]_vars

\* C18: the controller of main.js and the controller of main_functional.js
\* are equivalent.  From any state the two have in common, the handler of
\* main_functional.js for a click or a timer completion leads to the state
\* the handler of main.js leads to (the same liftStates, floorCalls and
\* pendingCalls, and the same timers pending); so, started alike and fed the
\* same events, the two pass through the same states.
C18_FunctionalControllerEquivalent ==
    [][\E s \in {Functional(lastEvent')} :
          /\ liftStates' = s.liftStates
          /\ floorCalls' = s.floorCalls
          /\ pendingCalls' = s.pendingCalls
          /\ trips' = s.trips
          /\ clock' = s.clock
          /\ lastEvent' = s.ev]_vars

\* Both controllers, at the end of a door cycle with two requests waiting,
\* send the lift that has finished for the older request and keep the other.
C18_Witness ==
    /\ Len(pendingCalls) = 2
    /\ \E t \in BagToSet(trips) :
           /\ t.pc = "close"
           /\ \E a \in {moveLiftFinished(State, t)},
                 b \in {moveLiftFinished_functional(State, t)} :
                  /\ a = b
                  /\ b.pendingCalls = Tail(pendingCalls)
                  /\ b.liftStates[t.liftIndex].status = "moving"
                  /\ b.ev.dispatched = t.liftIndex

\* C19: a flag floorCalls[f][d] goes from true to false only in the step in
\* which a lift that was sent to floor f and is at floor f ends its door
\* cycle (the handler that sets its status idle); a click, an arrival and the
\* start of the closing of the doors clear no flag.
C19_ClearedOnlyAtEndOfDoorCycle ==
    [][/\ \A f \in 1..floors, d \in Directions :
              Cleared(f, d) =>
                  /\ lastEvent'.op = "finished"
                  /\ lastEvent'.floor = f
                  /\ lastEvent'.lift \in 0..(lifts - 1)
                  /\ liftStates[lastEvent'.lift].currentFloor = f
                  /\ liftStates'[lastEvent'.lift].currentFloor = f
                  /\ liftStates[lastEvent'.lift].status = "moving"
                  /\ BagIn([liftIndex |-> lastEvent'.lift, targetFloor |-> f,
                            pc |-> "close"], trips)
                  /\ \/ liftStates'[lastEvent'.lift].status = "idle"
                     \/ lastEvent'.dispatched = lastEvent'.lift
       /\ lastEvent'.op \in {"callLift", "arrived", "doorsClosing"} =>
              \A f \in 1..floors, d \in Directions :
                  floorCalls[f][d] => floorCalls'[f][d]]_vars

\* A lift has just ended its door cycle and cleared a flag, while the flag of
\* a floor where another lift has its doors open or closing is still set.
C19_Witness ==
    /\ lastEvent.op = "finished"
    /\ lastEvent.cleared # {}
    /\ \E t \in BagToSet(trips), d \in Directions :
           /\ t.pc \in {"open", "close"}
           /\ t.liftIndex # lastEvent.lift
           /\ floorCalls[t.targetFloor][d]

\* Lift i has a trip waiting at the await pc.
WaitsAt(i, pc) ==
    \E t \in BagToSet(trips) : t.liftIndex = i /\ t.pc = pc

\* The trips after the step are those before it, with t replaced by u.
TripBecomes(t, u) == trips' = (trips (-) SetToBag({t})) (+) SetToBag({u})

\* C20: a trip is never cancelled or redirected.  While lift i is on a trip to
\* floor t it has that trip only, and a step leaves the trip where it is or
\* takes it to its next wait (travel, doors open, doors closing) and, from
\* the last, to its end with the lift at floor t; with every timer
\* completing, no wait lasts for ever, so every trip reaches its end.
C20_TripRunsToCompletion ==
    /\ \A i \in 0..(MaxLifts - 1), pc \in {"move", "open", "close"} :
           []<>(~WaitsAt(i, pc))
    /\ [][\A t \in BagToSet(trips) :
              LET i == t.liftIndex
              IN  /\ TripsOf(trips, i) = 1
                  /\ liftStates[i].status = "moving"
                  /\ \/ /\ BagIn(t, trips')
                        /\ liftStates'[i] = liftStates[i]
                     \/ /\ t.pc = "move"
                        /\ TripBecomes(t, [t EXCEPT !.pc = "open"])
                        /\ liftStates'[i] = [currentFloor |-> t.targetFloor,
                                             status |-> "moving"]
                     \/ /\ t.pc = "open"
                        /\ TripBecomes(t, [t EXCEPT !.pc = "close"])
                        /\ liftStates'[i] = liftStates[i]
                     \/ /\ t.pc = "close"
                        /\ liftStates[i].currentFloor = t.targetFloor
                        /\ liftStates'[i].currentFloor = t.targetFloor
                        /\ \/ /\ trips' = trips (-) SetToBag({t})
                              /\ liftStates'[i].status = "idle"
                           \/ /\ pendingCalls # <<>>
                              /\ pendingCalls' = Tail(pendingCalls)
                              /\ \E j \in 0..(lifts - 1) :
                                     /\ j = i \/ liftStates[j].status = "idle"
                                     /\ TripBecomes(t, [liftIndex |-> j,
                                                        targetFloor |-> Head(pendingCalls).floor,
                                                        pc |-> "move"])
                                     /\ liftStates'[j].status = "moving"]_vars

\* Lift 0 has completed a trip to a floor above the first and is idle there,
\* while lift 1, sent later, is still on its trip to another floor.
C20_Witness ==
    /\ lifts = 2
    /\ liftStates[0].status = "idle"
    /\ liftStates[0].currentFloor > 1
    /\ TripsOf(trips, 0) = 0
    /\ \E t \in BagToSet(trips) :
           /\ t.liftIndex = 1
           /\ t.pc = "close"
           /\ t.targetFloor # liftStates[0].currentFloor

\* C21: on a trip of lift i from floor c to floor t, currentFloor is c while
\* the trip waits on its travel timer and t from then on; it changes in the
\* one step of the arrival, from c to t, with the lift moving before and
\* after that step (the door cycle is still to come), and in no other step.
C21_CurrentFloorChangesOnArrivalOnly ==
    [][/\ \A t \in BagToSet(trips) :
              LET i == t.liftIndex
              IN  /\ liftStates[i].status = "moving"
                  /\ liftStates[i].currentFloor =
                         IF t.pc = "move" THEN clock[i].from ELSE t.targetFloor
       /\ \A i \in 0..(lifts - 1) :
              liftStates'[i].currentFloor # liftStates[i].currentFloor =>
                  /\ lastEvent'.op = "arrived" /\ lastEvent'.lift = i
                  /\ BagIn([liftIndex |-> i, targetFloor |-> lastEvent'.floor,
                            pc |-> "move"], trips)
                  /\ liftStates[i] = [currentFloor |-> clock[i].from,
                                      status |-> "moving"]
                  /\ liftStates'[i] = [currentFloor |-> lastEvent'.floor,
                                       status |-> "moving"]
                  /\ BagIn([liftIndex |-> i, targetFloor |-> lastEvent'.floor,
                            pc |-> "open"], trips')]_vars

\* A lift has just arrived two floors from where it was sent: it reads the
\* target floor and is still moving, its doors about to cycle.
C21_Witness ==
    /\ lastEvent.op = "arrived"
    /\ Abs(lastEvent.floor - clock[lastEvent.lift].from) = 2
    /\ liftStates[lastEvent.lift] = [currentFloor |-> lastEvent.floor,
                                     status |-> "moving"]

\* C22: findNearestIdleLift returns -1 exactly when no lift is idle, and its
\* evaluation leaves every lift, every flag, the pending calls and the trips
\* in flight as they were.
C22_NoneIffNoIdleLift ==
    [][lastEvent'.op = "findNearestIdleLift" =>
          /\ lastEvent'.lift = -1 <=> IdleLifts = {}
          /\ lastEvent'.lift # -1 => lastEvent'.lift \in 0..(lifts - 1)
          /\ CoreUnchanged]_vars

\* Three lifts, all on a trip, one of them at the floor asked for: the
\* answer is -1.
C22_Witness ==
    /\ lifts = 3
    /\ IdleLifts = {}
    /\ liftStates[1].currentFloor = 4
    /\ Selected(4, -1)

\* C23: after a re-configuration the replaced simulation is discarded: a
\* step that is not a step of the new simulation (its object is unchanged)
\* while the replaced one still has timers pending -- a timer completion of
\* the replaced simulation, with the pending call it may dispatch -- leaves
\* the document of the new simulation as it is: the position and the doors
\* of every lift element and the buttons pressed.
C23_PreviousSimulationDiscarded ==
    [][(/\ previous # NoSimulation
        /\ UNCHANGED <<floors, lifts, liftStates, floorCalls, pendingCalls, trips>>)
          => dom' = dom]_vars

C25_DispatchingCallFrame ==
    [][\A f \in 1..floors, d \in Directions :
          (IsCall(f, d) /\ lastEvent'.accepted /\ lastEvent'.dispatched # -1) =>
              LET i == lastEvent'.dispatched
              IN  /\ ~floorCalls[f][d]
                  /\ floorCalls' = [floorCalls EXCEPT ![f][d] = TRUE]
                  /\ liftStates[i].status = "idle"
                  /\ liftStates' = [liftStates EXCEPT ![i].status = "moving"]
                  /\ pendingCalls' = pendingCalls]_vars

\* A click has just sent the second lift to a floor other than its own while
\* the first lift is on a trip and another request is flagged.
C25_Witness ==
    /\ lastEvent.op = "callLift"
    /\ lastEvent.accepted
    /\ lastEvent.dispatched = 1
    /\ liftStates[1] = [currentFloor |-> 1, status |-> "moving"]
    /\ lastEvent.floor = 3
    /\ liftStates[0].status = "moving"
    /\ \E f \in 1..floors, d \in Directions :
           f # lastEvent.floor /\ floorCalls[f][d]

\* C26: the top floor never has an Up request and the bottom floor never a
\* Down request: floorCalls[floors].up and floorCalls[1].down are false and
\* no pending call is (floors, up) or (1, down).
C26_NoUpAtTopNoDownAtBottom ==
    /\ ~floorCalls[floors].up
    /\ ~floorCalls[1].down
    /\ \A k \in DOMAIN pendingCalls :
           /\ pendingCalls[k] # [floor |-> floors, direction |-> "up"]
           /\ pendingCalls[k] # [floor |-> 1, direction |-> "down"]

\* The top floor has a Down request and the bottom floor an Up request, one
\* of them waiting in the pending calls.
C26_Witness ==
    /\ floorCalls[floors].down
    /\ floorCalls[1].up
    /\ \E k \in DOMAIN pendingCalls :
           pendingCalls[k] \in {[floor |-> floors, direction |-> "down"],
                                [floor |-> 1, direction |-> "up"]}

\* C27: a simulation that has just been constructed has every lift at
\* currentFloor 1 with status idle, one pair of flags per floor (and one for
\* index 0), all false, and no pending call.
C27_ConstructedFresh ==
    [][(IsStart /\ ~lastEvent'.thrown /\ lastEvent'.error = "") =>
          /\ floors' = lastEvent'.input[1].n
          /\ lifts' = lastEvent'.input[2].n
          /\ DOMAIN liftStates' = 0..(lifts' - 1)
          /\ \A i \in 0..(lifts' - 1) :
                 liftStates'[i] = [currentFloor |-> 1, status |-> "idle"]
          /\ DOMAIN floorCalls' = 0..floors'
          /\ \A f \in 0..floors', d \in Directions : ~floorCalls'[f][d]
          /\ pendingCalls' = <<>>]_vars

\* A simulation of 9 floors and 5 lifts has just been constructed.
C27_Witness ==
    /\ lastEvent.op = "startSimulation"
    /\ ~lastEvent.thrown /\ lastEvent.error = ""
    /\ floors = FloorsLimit /\ lifts = LiftsLimit
    /\ \A i \in 0..(lifts - 1) :
           liftStates[i] = [currentFloor |-> 1, status |-> "idle"]

\* C28: between two handlers, when the pending calls are not empty no lift
\* is idle: a request never waits while a lift could serve it.
C28_NoIdleLiftWhileCallsPending ==
    pendingCalls # <<>> => IdleLifts = {}

\* A lift has just ended its door cycle with two requests waiting: it has
\* been sent for the older one, the other still waits and no lift is idle.
C28_Witness ==
    /\ lastEvent.op = "finished"
    /\ lastEvent.dequeued
    /\ pendingCalls # <<>>
    /\ lifts = 2
    /\ IdleLifts = {}

\* C29: whenever checkPendingCalls runs with a non-empty queue (at the end
\* of a door cycle), no lift was idle before the handler and the lift that
\* has finished is the one idle lift; the request taken off the queue is
\* dispatched to that lift, and the branch that puts the request back is
\* never taken.
C29_PutBackNeverTaken ==
    [][/\ ~lastEvent'.requeued
       /\ (lastEvent'.op = "finished" /\ pendingCalls # <<>>) =>
              /\ IdleLifts = {}
              /\ lastEvent'.dequeued
              /\ lastEvent'.dispatched = lastEvent'.lift
              /\ pendingCalls' = Tail(pendingCalls)
              /\ BagIn([liftIndex |-> lastEvent'.lift,
                        targetFloor |-> Head(pendingCalls).floor,
                        pc |-> "move"], trips')]_vars

\* A lift has just ended its door cycle and been sent for the waiting
\* request, to the floor where the other lift, still on its trip, stands.
C29_Witness ==
    /\ lastEvent.op = "finished"
    /\ lastEvent.dequeued
    /\ lastEvent.dispatched = lastEvent.lift
    /\ \E t \in BagToSet(trips), j \in 0..(lifts - 1) :
           /\ t.liftIndex = lastEvent.lift /\ t.pc = "move"
           /\ j # lastEvent.lift
           /\ liftStates[j] = [currentFloor |-> t.targetFloor, status |-> "moving"]
           /\ liftStates[lastEvent.lift].currentFloor # t.targetFloor

\* C30: the pending calls never hold two entries with the same floor and
\* direction.
C30_NoDuplicatePendingCall ==
    \A j, k \in DOMAIN pendingCalls : pendingCalls[j] = pendingCalls[k] => j = k

\* C31: whenever a lift is dispatched, by callLift or by checkPendingCalls,
\* the floor it is sent to has a flag set at that moment (the flags after the
\* step are the flags at the call of moveLift): no trip is made for a
\* request that has been served already.
C31_DispatchTargetsFlaggedFloor ==
    [][lastEvent'.dispatched # -1 =>
          \A t \in BagToSet(trips') :
              (t.liftIndex = lastEvent'.dispatched /\ t.pc = "move") =>
                  floorCalls'[t.targetFloor].up \/ floorCalls'[t.targetFloor].down]_vars

\* C32: no lit button is orphaned: when floorCalls[f][d] is true, a lift is
\* on a trip to floor f (travelling or cycling its doors there) or a pending
\* call is for floor f.
C32_NoOrphanedFlag ==
    \A f \in 1..floors, d \in Directions :
        floorCalls[f][d] =>
            \/ \E t \in BagToSet(trips) :
                   /\ t.targetFloor = f
                   /\ liftStates[t.liftIndex].status = "moving"
            \/ \E k \in DOMAIN pendingCalls : pendingCalls[k].floor = f

\* Three requests are flagged: for one a lift is travelling, for another a
\* lift is cycling its doors at the floor, the third waits in the pending
\* calls and no trip is under way to its floor.
C32_Witness ==
    /\ \E t \in BagToSet(trips) :
           t.pc = "move" /\ (floorCalls[t.targetFloor].up \/ floorCalls[t.targetFloor].down)
    /\ \E t \in BagToSet(trips) :
           t.pc # "move" /\ (floorCalls[t.targetFloor].up \/ floorCalls[t.targetFloor].down)
    /\ \E k \in DOMAIN pendingCalls :
           /\ floorCalls[pendingCalls[k].floor][pendingCalls[k].direction]
           /\ \A t \in BagToSet(trips) : t.targetFloor # pendingCalls[k].floor

\* C33: queued requests are not overtaken: a callLift step that accepts a
\* request and sends a lift for it at once happens only when no older request
\* waits in the pending calls; with a request waiting, the new one is put
\* behind it.
C33_NoOvertaking ==
    [][(lastEvent'.op = "callLift" /\ lastEvent'.accepted /\ pendingCalls # <<>>) =>
          /\ lastEvent'.dispatched = -1
          /\ trips' = trips
          /\ pendingCalls' = Append(pendingCalls,
                                    [floor |-> lastEvent'.floor,
                                     direction |-> lastEvent'.direction])]_vars

\* A request has just been accepted while an older one was waiting: it waits
\* behind it, although a lift stands at its floor with its doors cycling.
C33_Witness ==
    /\ lastEvent.op = "callLift"
    /\ lastEvent.accepted
    /\ lastEvent.dispatched = -1
    /\ Len(pendingCalls) = 2
    /\ pendingCalls[2] = [floor |-> lastEvent.floor, direction |-> lastEvent.direction]
    /\ pendingCalls[1].floor # lastEvent.floor
    /\ \E i \in 0..(lifts - 1) : liftStates[i].currentFloor = lastEvent.floor

\* C34: two different lifts are never on a trip (travelling or cycling
\* their doors) to the same target floor at the same time.
C34_OneLiftPerTargetFloor ==
    \A t, u \in BagToSet(trips) :
        t.targetFloor = u.targetFloor => t.liftIndex = u.liftIndex

\* Every lift is idle, no call is pending, no flag is set and no timer is
\* pending.
Quiescent ==
    /\ IdleLifts = 0..(lifts - 1)
    /\ pendingCalls = <<>>
    /\ \A f \in 0..floors, d \in Directions : ~floorCalls[f][d]
    /\ trips = EmptyBag

\* The step is a click that is accepted (a flag becomes true).
AcceptedClick ==
    \E f \in 1..floors, d \in Directions : ~floorCalls[f][d] /\ floorCalls'[f][d]

\* C35: quiescence.  With every timer completing, if from some point on no
\* click is accepted any more, the simulation reaches a state in which every
\* lift is idle, the pending calls are empty and every flag is false, and
\* stays in it.
C35_Quiescence ==
    (<>[][~AcceptedClick]_vars) => <>[]Quiescent

\* The simulation is at rest after requests were served: two lifts are idle
\* at different floors above the first and nothing is flagged or pending.
C35_Witness ==
    /\ Quiescent
    /\ lifts = 2
    /\ liftStates[0].currentFloor = 3
    /\ liftStates[1].currentFloor = 2

\* C36: in every state the currentFloor of each lift is an integer in
\* 1..floors, its status is one of the status values (the code uses idle and
\* moving), and no flag of the unused entry floorCalls[0] is set.
C36_LiftAndRegistryTypes ==
    /\ \A i \in DOMAIN liftStates :
           /\ liftStates[i].currentFloor \in 1..floors
           /\ liftStates[i].status \in {"idle", "moving"}
    /\ 0 \in DOMAIN floorCalls => (~floorCalls[0].up /\ ~floorCalls[0].down)

TypeOK ==
    /\ floors \in 2..MaxFloors
    /\ lifts \in 1..MaxLifts
    /\ liftStates \in [0..(lifts - 1) -> [currentFloor : 1..floors, status : {"idle", "moving"}]]
    /\ floorCalls \in [0..floors -> [up : BOOLEAN, down : BOOLEAN]]
    /\ Len(pendingCalls) <= MaxQueue
    /\ \A k \in DOMAIN pendingCalls : HasButton(pendingCalls[k].floor, pendingCalls[k].direction)
    /\ BagCardinality(trips) <= MaxTrips
    /\ \A t \in BagToSet(trips) :
           /\ t.liftIndex \in 0..(lifts - 1)
           /\ t.targetFloor \in 1..floors
           /\ t.pc \in {"move", "open", "close"}
====
